---- MODULE Spec2Model ----
(***************************************************************************)
(* A model of dingo's Cython wrapper around the volesti engine             *)
(* (src/dingo/volestipy.pyx): the HPolytope class, its constructor, the    *)
(* three single-shot operations (compute_volume, generate_samples,         *)
(* rounding) and the two multiphase Monte Carlo sampling loops (fast_mmcs, *)
(* slow_mmcs).                                                             *)
(*                                                                         *)
(* The C++ engine (bindings.h) and the two inner-ball suppliers are        *)
(* collaborators whose code is outside the wrapper: every call the wrapper *)
(* makes to them is recorded, with its arguments and its result, in the    *)
(* trace of the call in progress.                                          *)
(*                                                                         *)
(* Real numbers are kept in tenths: a status of 15 is 1.5, and the         *)
(* wrapper's test `check > 1.0 and check < 2.0` reads check > 10 and       *)
(* check < 20.  The wall clock counts half seconds.                        *)
(*                                                                         *)
(* The driver builds one object, makes any number of single-shot calls     *)
(* (the record of a call replaces the record of the one before), and then  *)
(* runs fast_mmcs and slow_mmcs, once each, in either order.               *)
(***************************************************************************)
EXTENDS Integers, Sequences, FiniteSets, TLC

VARIABLES
    pc,             \* where the driver / the running method is
    clock,          \* the wall clock, in half seconds
    seed_default,   \* compute_volume's default seed, evaluated at line 111
    obj,            \* the HPolytope: the shapes of _A and _b, and polytope_cpp
    last,           \* the latest call, when single-shot: its inputs, trace and outcome
    fast,           \* the fast_mmcs run: its locals, trace and result
    slow,           \* the slow_mmcs run: its locals, trace and result
    session,        \* the engine's MMCS session
    statuses,       \* the statuses the engine has returned, by phase
    bias            \* how far the LP-backed supplier's centre is from the geometric one

vars == <<pc, clock, seed_default, obj, last, fast, slow, session, statuses, bias>>

----------------------------------------------------------------------------
\* Bounds of the model.

\* The engine is followed for at most this many phases of a run.
MaxPhases == 3

\* The wall clock is followed for this many half seconds.
MaxClock == 2

\* The largest number of rows of A, and the largest length of b.
MaxRows == 2

----------------------------------------------------------------------------
\* Values.

None == [st |-> "none"]

\* The statuses mmcs_step may return, in tenths: -1.0, 0, 1.0, 1.5, 2.0.
StatusValues == {-10, 0, 10, 15, 20}

\* What the caller may give as a seed (an npy_int32), or nothing.
SeedArgs == {[given |-> FALSE, val |-> 0], [given |-> TRUE, val |-> 0],
             [given |-> TRUE, val |-> 7]}

\* The names a caller may give as a volume method.
VolNames == {"sequence_of_balls", "cooling_gaussian", "cooling_balls", "exact"}

\* The names a caller may give as a walk method of compute_volume.
WalkNames == {"uniform_ball", "CDHR", "RDHR", "gaussian_ball", "gaussian_CDHR",
              "gaussian_RDHR", "billiard", "cdhr", "billiard_walk"}

\* The names a caller may give as a method of generate_samples.
SamplingNames == {"cdhr", "rdhr", "billiard_walk", "ball_walk", "dikin_walk",
                  "john_walk", "vaidya_walk", "CDHR", "billiard"}

\* The names a caller may give as a method of rounding.
RoundingNames == {"john_position", "isotropic_position", "min_ellipsoid",
                  "max_ellipsoid", "svd"}

\* The arguments (ess, psrf_check, parallelism, num_threads) of an MMCS run.
MmcsArgs == {[ess |-> 1000, psrf_check |-> TRUE, parallelism |-> FALSE, num_threads |-> 2],
             [ess |-> 500, psrf_check |-> FALSE, parallelism |-> TRUE, num_threads |-> 4]}

\* One recorded call to a collaborator.
Call(f, arg, ret) == [f |-> f, arg |-> arg, ret |-> ret]

----------------------------------------------------------------------------
\* Python and Cython primitives.

\* str.encode("UTF-8"): a bytes object, never equal to a str.
Encode(s) == <<"bytes", s>>

\* `x in lst` for a Python list.
InList(x, lst) == \E i \in DOMAIN lst : lst[i] = x

\* bool(x) stored in a bint: 0 or 1.
Bint(x) == IF x THEN 1 ELSE 0

\* int(time.time()): the clock's whole seconds.
get_time_seed(now) == now \div 2

volume_methods ==
    <<Encode("sequence_of_balls"), Encode("cooling_gaussian"), Encode("cooling_balls")>>

\* walk_methods with its last entry lost.
walk_methods_short ==
    <<Encode("uniform_ball"), Encode("CDHR"), Encode("RDHR"), Encode("gaussian_ball"),
      Encode("gaussian_CDHR"), Encode("gaussian_RDHR"), Encode("uniform_ball")>>

walk_methods ==
    <<Encode("uniform_ball"), Encode("CDHR"), Encode("RDHR"), Encode("gaussian_ball"),
      Encode("gaussian_CDHR"), Encode("gaussian_RDHR"), Encode("uniform_ball"),
      Encode("billiard")>>

rounding_methods ==
    <<Encode("min_ellipsoid"), Encode("svd"), Encode("max_ellipsoid")>>

----------------------------------------------------------------------------
\* The collaborators.

\* The polytopes are numbered: 0 is the object's own (A, b), k the engine's
\* polytope after the rounding of phase k.

\* slow_inner_ball(A, b): the centre and radius of an inscribed ball.
slow_inner_ball(P) == <<10 + P, 1 + P>>

\* fast_inner_ball(A, b): the LP-backed supplier.
fast_inner_ball(P) == <<10 + P + bias, 1 + P>>

\* HPolytopeCPP(A, b, n_hyperplanes, n_variables) copies n_hyperplanes entries
\* from b. It is handed a bare pointer: past the end of b the read is undefined,
\* and either brings in whatever is there or stops the process.
HPolytopeCPP_outcomes(n_hyperplanes, n_variables, b_len) ==
    LET oob == IF n_hyperplanes > b_len THEN n_hyperplanes - b_len ELSE 0
        built == [st |-> "built", n_hyperplanes |-> n_hyperplanes,
                  n_variables |-> n_variables, oob_reads |-> oob]
    IN  IF oob > 0 THEN {built, [st |-> "segfault"]} ELSE {built}

\* mmcs_initialize(d, ess, psrf_check, parallelism, num_threads): a new session.
mmcs_initialize(d, ess, psrf, par, nt) ==
    [st |-> "initialized", phase |-> 0, poly |-> 0, N |-> 0,
     params |-> <<d, ess, psrf, par, nt>>]

\* mmcs_step(inner_point, radius, N), returning the given status: one more
\* phase, the polytope rounded once more, the samples of the phase added.
mmcs_step(s, status) ==
    [s EXCEPT !.st = "stepped", !.phase = @ + 1, !.poly = s.phase + 1, !.N = @ + 1]

\* get_polytope_as_matrices(new_A, new_b): the session's current polytope.
get_polytope_as_matrices(s) == s.poly

\* get_mmcs_samples(T_matrix, T_shift, samples): the composed transform (one
\* factor per phase) and the N samples.
get_mmcs_samples(s) == <<s.phase, s.phase, s.N>>

----------------------------------------------------------------------------
Init ==
    /\ pc = "new"
    /\ clock = 0
    /\ seed_default = get_time_seed(0)
    /\ obj = None
    /\ last = None
    /\ fast = None
    /\ slow = None
    /\ session = None
    /\ statuses = <<>>
    /\ bias \in {0, 1}

\* Time passes between calls.
Tick ==
    /\ pc = "idle"
    /\ fast.st = "none" /\ slow.st = "none"
    /\ clock < MaxClock
    /\ clock' = clock + 1
    /\ UNCHANGED <<pc, seed_default, obj, last, fast, slow, session, statuses, bias>>

\* HPolytope.__cinit__(A, b)
cinit(A_rows, A_cols, b_len) ==
    /\ pc = "new"
    /\ LET n_hyperplanes == A_rows
           n_variables == A_cols
       IN  \E cpp \in HPolytopeCPP_outcomes(n_hyperplanes, n_variables, b_len) :
              /\ obj' = [st |-> "constructed", A_shape |-> <<A_rows, A_cols>>,
                         b_shape |-> b_len, polytope_cpp |-> cpp]
              /\ pc' = IF cpp.st = "segfault" THEN "crashed" ELSE "idle"
    /\ UNCHANGED <<clock, seed_default, last, fast, slow, session, statuses, bias>>

\* HPolytope.compute_volume(walk_len, epsilon, vol_method, walk_method, seed)
compute_volume(walk_len, epsilon, vol_method_arg, walk_method_arg, seed_arg) ==
    /\ pc = "idle"
    /\ fast.st = "none" /\ slow.st = "none"
    /\ LET seed == IF seed_arg.given THEN seed_arg.val ELSE seed_default
           vol_method == Encode(vol_method_arg)
           walk_method == Encode(walk_method_arg)
           inputs == [vol_method |-> vol_method_arg, walk_method |-> walk_method_arg,
                      seed |-> seed_arg, at |-> clock]
       IN  IF InList(vol_method, volume_methods)
           THEN IF InList(walk_method, walk_methods)
                THEN last' = [st |-> "returned", op |-> "compute_volume", in |-> inputs,
                              calls |-> <<Call("compute_volume",
                                  <<vol_method, walk_method, walk_len, epsilon, seed>>, <<>>)>>,
                              raised |-> "none"]
                ELSE last' = [st |-> "raised", op |-> "compute_volume", in |-> inputs,
                              calls |-> <<>>, raised |-> "Exception: walk methods"]
           ELSE last' = [st |-> "raised", op |-> "compute_volume", in |-> inputs,
                         calls |-> <<>>, raised |-> "Exception: compute volume"]
    /\ UNCHANGED <<pc, clock, seed_default, obj, fast, slow, session, statuses, bias>>

\* The chain with the code of the branch above copied into the john_walk branch.
sampling_int_method_slip(method) ==
    IF method = "cdhr" THEN 1
    ELSE IF method = "rdhr" THEN 2
    ELSE IF method = "billiard_walk" THEN 3
    ELSE IF method = "ball_walk" THEN 4
    ELSE IF method = "dikin_walk" THEN 5
    ELSE IF method = "john_walk" THEN 5
    ELSE IF method = "vaidya_walk" THEN 7
    ELSE 0

\* generate_samples' chain of comparisons on the method name: the integer
\* code of the walk, 0 where the chain ends in its else branch.
sampling_int_method(method) ==
    IF method = "cdhr" THEN 1
    ELSE IF method = "rdhr" THEN 2
    ELSE IF method = "billiard_walk" THEN 3
    ELSE IF method = "ball_walk" THEN 4
    ELSE IF method = "dikin_walk" THEN 5
    ELSE IF method = "john_walk" THEN 6
    ELSE IF method = "vaidya_walk" THEN 7
    ELSE 0

\* HPolytope.generate_samples(method, number_of_points, number_of_points_to_burn,
\*                            walk_len, fast_mode)
generate_samples(method, number_of_points, number_of_points_to_burn, walk_len, fast_mode) ==
    /\ pc = "idle"
    /\ fast.st = "none" /\ slow.st = "none"
    /\ LET ball == IF fast_mode THEN fast_inner_ball(0) ELSE slow_inner_ball(0)
           ball_call == Call(IF fast_mode THEN "fast_inner_ball" ELSE "slow_inner_ball",
                             <<0>>, ball)
           inner_point_for_c == ball[1]
           radius == ball[2]
           int_method == sampling_int_method(method)
           inputs == [method |-> method, fast_mode |-> fast_mode]
       IN  IF int_method # 0
           THEN last' = [st |-> "returned", op |-> "generate_samples", in |-> inputs,
                         calls |-> <<ball_call,
                             Call("apply_sampling",
                                  <<walk_len, number_of_points, number_of_points_to_burn,
                                    int_method, inner_point_for_c, radius>>, <<>>)>>,
                         raised |-> "none"]
           ELSE last' = [st |-> "raised", op |-> "generate_samples", in |-> inputs,
                         calls |-> <<ball_call>>,
                         raised |-> "RuntimeError: Uknown MCMC sampling method"]
    /\ UNCHANGED <<pc, clock, seed_default, obj, fast, slow, session, statuses, bias>>

\* rounding's chain of comparisons on the method name: the integer code of the
\* rounding, 0 where the chain ends in its else branch.
rounding_int_method(rounding_method) ==
    IF rounding_method = "john_position" THEN 1
    ELSE IF rounding_method = "isotropic_position" THEN 2
    ELSE IF rounding_method = "min_ellipsoid" THEN 3
    ELSE 0

\* HPolytope.rounding(rounding_method, fast_mode)
rounding(rounding_method, fast_mode) ==
    /\ pc = "idle"
    /\ fast.st = "none" /\ slow.st = "none"
    /\ LET ball == IF fast_mode THEN fast_inner_ball(0) ELSE slow_inner_ball(0)
           ball_call == Call(IF fast_mode THEN "fast_inner_ball" ELSE "slow_inner_ball",
                             <<0>>, ball)
           inner_point_for_c == ball[1]
           radius == ball[2]
           int_method == rounding_int_method(rounding_method)
           inputs == [method |-> rounding_method, fast_mode |-> fast_mode]
       IN  IF int_method # 0
           THEN last' = [st |-> "returned", op |-> "rounding", in |-> inputs,
                         calls |-> <<ball_call,
                             Call("apply_rounding",
                                  <<int_method, inner_point_for_c, radius>>, <<>>)>>,
                         raised |-> "none"]
           ELSE last' = [st |-> "raised", op |-> "rounding", in |-> inputs,
                         calls |-> <<ball_call>>,
                         raised |-> "RuntimeError: Uknown rounding method"]
    /\ UNCHANGED <<pc, clock, seed_default, obj, fast, slow, session, statuses, bias>>

\* The status the engine returns for a phase: the one it returned for that
\* phase before, or any.
EngineStatus(k) == IF k <= Len(statuses) THEN {statuses[k]} ELSE StatusValues

Reveal(k, status) == IF k <= Len(statuses) THEN statuses ELSE Append(statuses, status)

\* The loop test with its upper comparison lost.
fast_break_open(check) == check > 10

\* The loop test with its lower comparison made non-strict.
fast_break_closed(check) == check >= 10 /\ check < 20

\* fast_mmcs, line 220: the test that leaves the loop.
fast_break(check) == check > 10 /\ check < 20

\* The next phase's start with the radius of the phase before kept.
fast_next_start_stale(r, ball) == <<ball[1], r.radius>>

\* fast_mmcs, lines 224-225: the start point and radius of the next phase, from
\* the ball the supplier returned for the rounded polytope.
fast_next_start(r, ball) == <<ball[1], ball[2]>>

\* HPolytope.fast_mmcs(ess, psrf_check, parallelism, num_threads), up to its loop:
\* the session is initialized and the inscribed ball of (A, b) computed.
fast_mmcs_begin(ess, psrf_check, parallelism, num_threads) ==
    /\ pc = "idle"
    /\ fast.st = "none"
    /\ LET n_variables == obj.A_shape[2]
           check_psrf == Bint(psrf_check)
           parallel == Bint(parallelism)
           ball == fast_inner_ball(0)
       IN  /\ session' = mmcs_initialize(n_variables, ess, check_psrf, parallel, num_threads)
           /\ fast' = [st |-> "running",
                      args |-> <<ess, psrf_check, parallelism, num_threads>>,
                      calls |-> <<Call("mmcs_initialize",
                                       <<n_variables, ess, check_psrf, parallel, num_threads>>,
                                       <<>>),
                                  Call("fast_inner_ball", <<0>>, ball)>>,
                      inner_point_for_c |-> ball[1], radius |-> ball[2],
                      check |-> 0, N_samples |-> 0, result |-> <<>>]
    /\ pc' = "fast_loop"
    /\ last' = None
    /\ UNCHANGED <<clock, seed_default, obj, slow, statuses, bias>>

\* One turn of fast_mmcs's `while True`: a phase of the engine, the test on its
\* status, and either the break or the inscribed ball of the rounded polytope.
fast_mmcs_loop ==
    /\ pc = "fast_loop"
    /\ session.phase < MaxPhases
    /\ \E status \in EngineStatus(session.phase + 1) :
          LET s1 == mmcs_step(session, status)
              check == status
              N_samples == s1.N
              step == Call("mmcs_step", <<fast.inner_point_for_c, fast.radius>>,
                           <<status, N_samples>>)
              ball == fast_inner_ball(get_polytope_as_matrices(s1))
              start == fast_next_start(fast, ball)
          IN  /\ session' = s1
              /\ statuses' = Reveal(session.phase + 1, status)
              /\ IF fast_break(check)
                 THEN /\ fast' = [fast EXCEPT !.calls = Append(@, step),
                                           !.check = check, !.N_samples = N_samples]
                      /\ pc' = "fast_extract"
                 ELSE /\ fast' = [fast EXCEPT
                            !.calls = @ \o <<step,
                                Call("get_polytope_as_matrices", <<>>,
                                     <<get_polytope_as_matrices(s1)>>),
                                Call("fast_inner_ball", <<get_polytope_as_matrices(s1)>>, ball)>>,
                            !.check = check, !.N_samples = N_samples,
                            !.inner_point_for_c = start[1], !.radius = start[2]]
                      /\ pc' = "fast_loop"
    /\ UNCHANGED <<clock, seed_default, obj, last, slow, bias>>

\* fast_mmcs after its loop: the samples and the last polytope are read from the
\* engine and returned.
fast_mmcs_return ==
    /\ pc = "fast_extract"
    /\ LET got == get_mmcs_samples(session)
           poly == get_polytope_as_matrices(session)
       IN  fast' = [fast EXCEPT
               !.st = "returned",
               !.calls = @ \o <<Call("get_mmcs_samples", <<fast.N_samples>>, got),
                                Call("get_polytope_as_matrices", <<>>, <<poly>>)>>,
               !.result = <<poly, poly, got[1], got[2], got[3]>>]
    /\ pc' = "idle"
    /\ UNCHANGED <<clock, seed_default, obj, last, slow, session, statuses, bias>>

\* slow_mmcs, line 258: the test that leaves the loop.
slow_break(check) == check > 10 /\ check < 20

\* The next phase's start with the radius of the phase before kept.
slow_next_start_stale(r, ball) == <<ball[1], r.radius>>

\* slow_mmcs, lines 262-263: the start point and radius of the next phase, from
\* the ball the supplier returned for the rounded polytope.
slow_next_start(r, ball) == <<ball[1], ball[2]>>

\* HPolytope.slow_mmcs(ess, psrf_check, parallelism, num_threads), up to its loop:
\* the session is initialized and the inscribed ball of (A, b) computed.
slow_mmcs_begin(ess, psrf_check, parallelism, num_threads) ==
    /\ pc = "idle"
    /\ slow.st = "none"
    /\ LET n_variables == obj.A_shape[2]
           check_psrf == Bint(psrf_check)
           parallel == Bint(parallelism)
           ball == slow_inner_ball(0)
       IN  /\ session' = mmcs_initialize(n_variables, ess, check_psrf, parallel, num_threads)
           /\ slow' = [st |-> "running",
                      args |-> <<ess, psrf_check, parallelism, num_threads>>,
                      calls |-> <<Call("mmcs_initialize",
                                       <<n_variables, ess, check_psrf, parallel, num_threads>>,
                                       <<>>),
                                  Call("slow_inner_ball", <<0>>, ball)>>,
                      inner_point_for_c |-> ball[1], radius |-> ball[2],
                      check |-> 0, N_samples |-> 0, result |-> <<>>]
    /\ pc' = "slow_loop"
    /\ last' = None
    /\ UNCHANGED <<clock, seed_default, obj, fast, statuses, bias>>

\* One turn of slow_mmcs's `while True`: a phase of the engine, the test on its
\* status, and either the break or the inscribed ball of the rounded polytope.
slow_mmcs_loop ==
    /\ pc = "slow_loop"
    /\ session.phase < MaxPhases
    /\ \E status \in EngineStatus(session.phase + 1) :
          LET s1 == mmcs_step(session, status)
              check == status
              N_samples == s1.N
              step == Call("mmcs_step", <<slow.inner_point_for_c, slow.radius>>,
                           <<status, N_samples>>)
              ball == slow_inner_ball(get_polytope_as_matrices(s1))
              start == slow_next_start(slow, ball)
          IN  /\ session' = s1
              /\ statuses' = Reveal(session.phase + 1, status)
              /\ IF slow_break(check)
                 THEN /\ slow' = [slow EXCEPT !.calls = Append(@, step),
                                           !.check = check, !.N_samples = N_samples]
                      /\ pc' = "slow_extract"
                 ELSE /\ slow' = [slow EXCEPT
                            !.calls = @ \o <<step,
                                Call("get_polytope_as_matrices", <<>>,
                                     <<get_polytope_as_matrices(s1)>>),
                                Call("slow_inner_ball", <<get_polytope_as_matrices(s1)>>, ball)>>,
                            !.check = check, !.N_samples = N_samples,
                            !.inner_point_for_c = start[1], !.radius = start[2]]
                      /\ pc' = "slow_loop"
    /\ UNCHANGED <<clock, seed_default, obj, last, fast, bias>>

\* slow_mmcs after its loop: the samples and the last polytope are read from the
\* engine and returned.
slow_mmcs_return ==
    /\ pc = "slow_extract"
    /\ LET got == get_mmcs_samples(session)
           poly == get_polytope_as_matrices(session)
       IN  slow' = [slow EXCEPT
               !.st = "returned",
               !.calls = @ \o <<Call("get_mmcs_samples", <<slow.N_samples>>, got),
                                Call("get_polytope_as_matrices", <<>>, <<poly>>)>>,
               !.result = <<poly, poly, got[1], got[2], got[3]>>]
    /\ pc' = "idle"
    /\ UNCHANGED <<clock, seed_default, obj, last, fast, session, statuses, bias>>

Next ==
    \/ Tick
    \/ \E r \in 1..MaxRows, l \in 1..MaxRows : cinit(r, 1, l)
    \/ \E v \in VolNames, w \in WalkNames, s \in SeedArgs : compute_volume(2, 5, v, w, s)
    \/ \E m \in SamplingNames, fm \in BOOLEAN : generate_samples(m, 100, 10, 1, fm)
    \/ \E m \in RoundingNames, fm \in BOOLEAN : rounding(m, fm)
    \/ \E a \in MmcsArgs : fast_mmcs_begin(a.ess, a.psrf_check, a.parallelism, a.num_threads)
    \/ fast_mmcs_loop
    \/ fast_mmcs_return
    \/ \E a \in MmcsArgs : slow_mmcs_begin(a.ess, a.psrf_check, a.parallelism, a.num_threads)
    \/ slow_mmcs_loop
    \/ slow_mmcs_return

Spec == Init /\ [][Next]_vars

\* A method that is running goes on running: the loops and the returns are
\* straight-line Python, and nothing suspends them.
FairSpec ==
    /\ Spec
    /\ WF_vars(fast_mmcs_loop) /\ WF_vars(fast_mmcs_return)
    /\ WF_vars(slow_mmcs_loop) /\ WF_vars(slow_mmcs_return)

----------------------------------------------------------------------------
\* What the properties below read from the traces.

\* The positions of the calls to f in a trace.
Idx(calls, f) == {i \in DOMAIN calls : calls[i].f = f}

IsBall(c) == c.f \in {"fast_inner_ball", "slow_inner_ball"}

\* The calls made to the engine, in order.
EngineCalls(calls) == SelectSeq(calls, LAMBDA c : ~IsBall(c))

\* The ranges of the status of a phase: converged is 1 < status < 2, failed is
\* status >= 2 or status < 0.
Converged(status) == status > 10 /\ status < 20

Failed(status) == status >= 20 \/ status < 0

\* The positions of the phases of a trace whose status is in the converged range.
ConvergedSteps(calls) == {i \in Idx(calls, "mmcs_step") : Converged(calls[i].ret[1])}

\* The two suppliers return the same centre and radius for every polytope.
SuppliersAgree == \A P \in 0..MaxPhases : fast_inner_ball(P) = slow_inner_ball(P)

VolAllowed == {"sequence_of_balls", "cooling_gaussian", "cooling_balls"}

WalkAllowed == {"uniform_ball", "CDHR", "RDHR", "gaussian_ball", "gaussian_CDHR",
                "gaussian_RDHR", "billiard"}

SamplingAllowed == {"cdhr", "rdhr", "billiard_walk", "ball_walk", "dikin_walk",
                    "john_walk", "vaidya_walk"}

RoundingAllowed == {"john_position", "isotropic_position", "min_ellipsoid"}

----------------------------------------------------------------------------
\* C1: in a run of fast_mmcs or slow_mmcs, once mmcs_step has returned a status
\* in the failed range, the run makes no further call to mmcs_step, to
\* get_polytope_as_matrices or to an inner-ball supplier.
NoCallAfterFailure(r) ==
    r.st # "none" =>
        \A i \in Idx(r.calls, "mmcs_step") :
            Failed(r.calls[i].ret[1]) =>
                \A j \in DOMAIN r.calls :
                    j > i => /\ r.calls[j].f # "mmcs_step"
                             /\ r.calls[j].f # "get_polytope_as_matrices"
                             /\ ~IsBall(r.calls[j])

C1_FailureEndsRun == NoCallAfterFailure(fast) /\ NoCallAfterFailure(slow)

\* C2: when generate_samples or rounding raises for an unknown method name, it
\* has called neither an inner-ball supplier nor the engine.
C2_RejectedBeforeWork ==
    (last.st = "raised" /\ last.op \in {"generate_samples", "rounding"})
        => last.calls = <<>>

\* C3: compute_volume raises, with no call to the engine, when vol_method or
\* walk_method is outside its allow-list, and calls the engine's compute_volume
\* exactly once, with the two names, when both are inside.
C3_VolumeAllowList ==
    (last.st # "none" /\ last.op = "compute_volume") =>
        IF last.in.vol_method \in VolAllowed /\ last.in.walk_method \in WalkAllowed
        THEN /\ last.st = "returned"
             /\ Len(last.calls) = 1
             /\ last.calls[1].f = "compute_volume"
             /\ last.calls[1].arg[1] = Encode(last.in.vol_method)
             /\ last.calls[1].arg[2] = Encode(last.in.walk_method)
        ELSE /\ last.st = "raised"
             /\ last.calls = <<>>

\* A call of compute_volume refused for a walk method that differs from an
\* allowed one only in case.
C3_Witness ==
    /\ last.st = "raised" /\ last.op = "compute_volume"
    /\ last.in.vol_method = "cooling_balls" /\ last.in.walk_method = "cdhr"

\* C4: an HPolytope is constructed only from an A and a b with as many rows as
\* entries.
C4_ConstructionChecksShapes ==
    obj.st = "constructed" => obj.A_shape[1] = obj.b_shape

\* C5: in a run, mmcs_initialize is called once and first; at most one phase
\* has a status in the converged range, and it is the last phase;
\* get_mmcs_samples is called at most once, after that phase and with no phase
\* after it; a run that has left its loop has had exactly one such phase, and a
\* run that has returned exactly one call of get_mmcs_samples.
Lifecycle(r, left, returned) ==
    r.st # "none" =>
        LET steps == Idx(r.calls, "mmcs_step")
            conv == ConvergedSteps(r.calls)
            got == Idx(r.calls, "get_mmcs_samples")
        IN  /\ Idx(r.calls, "mmcs_initialize") = {1}
            /\ Cardinality(conv) <= 1
            /\ \A i \in conv : \A j \in steps : j <= i
            /\ Cardinality(got) <= 1
            /\ \A g \in got : /\ \E i \in conv : i < g
                              /\ \A j \in steps : j < g
            /\ left => Cardinality(conv) = 1
            /\ returned <=> Cardinality(got) = 1

C5_SessionLifecycle ==
    /\ Lifecycle(fast, pc = "fast_extract" \/ fast.st = "returned", fast.st = "returned")
    /\ Lifecycle(slow, pc = "slow_extract" \/ slow.st = "returned", slow.st = "returned")

\* A run of three phases that has returned.
C5_Witness ==
    /\ fast.st = "returned"
    /\ Cardinality(Idx(fast.calls, "mmcs_step")) = 3

\* C6: between two consecutive phases of a run there is exactly one call of
\* get_polytope_as_matrices, returning the polytope of the earlier phase, then
\* exactly one call of the inner-ball supplier, on that polytope, and the later
\* phase starts from the centre and radius that call returned.
Sequential(r) ==
    r.st # "none" =>
        LET steps == Idx(r.calls, "mmcs_step")
        IN  \A i \in steps : \A j \in steps :
                (i < j /\ ~\E k \in steps : i < k /\ k < j) =>
                    LET between == {k \in DOMAIN r.calls : i < k /\ k < j}
                        gets == {k \in between : r.calls[k].f = "get_polytope_as_matrices"}
                        balls == {k \in between : IsBall(r.calls[k])}
                    IN  /\ Cardinality(gets) = 1
                        /\ Cardinality(balls) = 1
                        /\ \A g \in gets : \A b \in balls :
                              /\ g < b
                              /\ r.calls[g].ret[1] = Cardinality({k \in steps : k <= i})
                              /\ r.calls[b].arg = r.calls[g].ret
                              /\ r.calls[j].arg = r.calls[b].ret

C6_PhasesSequential == Sequential(fast) /\ Sequential(slow)

\* A run in its third phase.
C6_Witness ==
    /\ slow.st = "running"
    /\ Cardinality(Idx(slow.calls, "mmcs_step")) = 3

\* C7: a fast_mmcs run and a slow_mmcs run on the same object, with the same
\* arguments and suppliers that agree, both returned: they made the same calls
\* to the engine, with the same arguments and results, and returned the same.
C7_FastSlowAgree ==
    (/\ fast.st = "returned" /\ slow.st = "returned"
     /\ fast.args = slow.args
     /\ SuppliersAgree)
        => /\ EngineCalls(fast.calls) = EngineCalls(slow.calls)
           /\ fast.result = slow.result

\* Both runs returned after three phases, on the same arguments, the suppliers
\* agreeing.
C7_Witness ==
    /\ fast.st = "returned" /\ slow.st = "returned"
    /\ fast.args = slow.args
    /\ SuppliersAgree
    /\ Cardinality(Idx(slow.calls, "mmcs_step")) = 3

\* C8: the seed compute_volume passes to the engine is the caller's when the
\* caller gives one, and otherwise the whole seconds of the clock at the call.
C8_SeedFromClockAtCall ==
    (last.st = "returned" /\ last.op = "compute_volume") =>
        last.calls[1].arg[5] = IF last.in.seed.given THEN last.in.seed.val
                               ELSE get_time_seed(last.in.at)

InLoop(r, at_loop, loop_enabled) ==
    /\ (r.st = "returned" => ConvergedSteps(r.calls) # {})
    /\ (r.st = "running" /\ ConvergedSteps(r.calls) = {}) => at_loop
    /\ (at_loop /\ session.phase < MaxPhases) => loop_enabled

C10_NoPhaseCap ==
    /\ [](InLoop(fast, pc = "fast_loop", ENABLED fast_mmcs_loop))
    /\ [](InLoop(slow, pc = "slow_loop", ENABLED slow_mmcs_loop))
    /\ [][(pc = "fast_loop" /\ fast'.calls # fast.calls /\ ~Converged(fast'.check))
            => pc' = "fast_loop"]_vars
    /\ [][(pc = "slow_loop" /\ slow'.calls # slow.calls /\ ~Converged(slow'.check))
            => pc' = "slow_loop"]_vars
    /\ (fast.st = "running" /\ ConvergedSteps(fast.calls) # {}) ~> (fast.st = "returned")
    /\ (slow.st = "running" /\ ConvergedSteps(slow.calls) # {}) ~> (slow.st = "returned")

\* A run that is back in its loop after phases of status 1.0 and 2.0.
C10_Witness ==
    /\ pc = "fast_loop"
    /\ statuses = <<10, 20>>
    /\ Cardinality(Idx(fast.calls, "mmcs_step")) = 2

====
